---- MODULE Spec2Model ----
(***************************************************************************)
(* Model of src/alignment/aligner.py: the Aligner class (Needleman-Wunsch  *)
(* and Smith-Waterman matrix fill with constant gap penalty, and the       *)
(* traceback that re-derives the moves from the stored scores), driven as  *)
(* run() drives it: construction, align(), then select_global_alignment()  *)
(* or select_local_alignment().                                            *)
(*                                                                         *)
(* Scores are integers: np.float32 / float64 arithmetic on small integers  *)
(* is exact, so the equality tests of the traceback are the integer ones.  *)
(* Sequences are the upper-cased strings the constructor stores.           *)
(***************************************************************************)
EXTENDS Integers, Sequences, FiniteSets, TLC

\* Longest input sequence.
MaxLen == 2
\* match, mismatch and gap range over -MaxScore..MaxScore.
MaxScore == 1

Alphabet == {"A", "C"}
GapSym == "-"
Symbols == Alphabet \cup {GapSym}
\* Entries of a loaded substitution table.
SubValues == {0, 1}

\* Defaults of Aligner.__init__.
DefaultMatch == 1
DefaultGap == -1
DefaultMismatch == -1

VARIABLES
    seq1, seq2,        \* self.seq1, self.seq2
    match, gap, mismatch,
    local,             \* self.local
    weights,           \* self.weights: (row, column) -> score
    matrix,            \* self.matrix: (i, j) -> score
    pc,                \* where run() is
    current,           \* the traceback's coordinate
    value,             \* select_local_alignment's `value`
    rows,              \* the two rows being emitted (end to start)
    alignment,         \* self.alignment once keyed: set of <<start, rows>>
    indices,           \* select_local_alignment: starts still to do
    start              \* select_local_alignment: the current start

vars == <<seq1, seq2, match, gap, mismatch, local, weights, matrix, pc,
          current, value, rows, alignment, indices, start>>

Seqs == UNION {[1..k -> Alphabet] : k \in 0..MaxLen}
Scores == (0 - MaxScore)..MaxScore

Range(s) == {s[k] : k \in DOMAIN s}

\* Python's max over a non-empty collection of numbers.
Max(S) == CHOOSE x \in S : \A y \in S : y <= x

\* Python's s[k] for a string: negative k counts from the end.
PyIndex(s, k) == IF k >= 0 THEN s[k + 1] ELSE s[Len(s) + k + 1]
\* Python raises IndexError for s[k].
IndexError(s, k) == k >= Len(s) \/ k < 0 - Len(s)

\* self.weights.loc[(r, c)]
loc(r, c) == weights[<<r, c>>]

\* set_weights(False): zeros over the symbols of the two sequences and '-'.
set_weights(s1, s2) ==
    LET seq == Range(s1) \cup Range(s2) \cup {GapSym}
    IN  [p \in seq \X seq |-> 0]

\* A table read from a file: symmetric, over every symbol and '-'.
Tables ==
    {t \in [Symbols \X Symbols -> SubValues] :
        \A a \in Symbols, b \in Symbols : t[<<a, b>>] = t[<<b, a>>]}

check_non_negativity(result) ==
    IF local THEN Max({0, result}) ELSE result

Shape(s1, s2) == (0..Len(s1)) \X (0..Len(s2))

\* init_matrix's `counter` before position ax of the sequence '-' + s.
RECURSIVE BorderCounter(_, _)
BorderCounter(s, ax) ==
    IF ax = 0 THEN 0
    ELSE BorderCounter(s, ax - 1) + gap + loc(GapSym, (<<GapSym>> \o s)[ax])

\* init_matrix: what is written at position ax of an axis.
BorderCell(s, ax) ==
    BorderCounter(s, ax) + loc(GapSym, (<<GapSym>> \o s)[ax + 1])

\* init_matrix with `position` always (ax, 0): row 0 is never filled.
init_matrix_column_only(s1, s2) ==
    IF local THEN [p \in Shape(s1, s2) |-> 0]
    ELSE [p \in Shape(s1, s2) |->
            IF p[2] = 0 THEN BorderCell(s1, p[1]) ELSE 0]

init_matrix(s1, s2) ==
    IF local THEN [p \in Shape(s1, s2) |-> 0]
    ELSE [p \in Shape(s1, s2) |->
            IF p[1] = 0 THEN BorderCell(s2, p[2])
            ELSE IF p[2] = 0 THEN BorderCell(s1, p[1])
            ELSE 0]

get_neighbours(i, j) == <<<<i - 1, j - 1>>, <<i, j - 1>>, <<i - 1, j>>>>

\* cell: the weight keys are zipped with the neighbours in this order.
CellWeights(a, b) == <<<<a, b>>, <<a, GapSym>>, <<GapSym, b>>>>

cell(M, s1, s2, i, j) ==
    LET a == s1[i]
        b == s2[j]
        idx == get_neighbours(i, j)
        keys == CellWeights(a, b)
        cand(k) ==
            LET index == idx[k]
                step == IF i - 1 = index[1] /\ j - 1 = index[2]
                        THEN (IF a = b THEN match ELSE mismatch)
                        ELSE gap
            IN  M[index] + step + loc(keys[k][1], keys[k][2])
    IN  Max({cand(k) : k \in 1..3})

\* align's two loops from the k-th interior cell on, row by row.
RECURSIVE Fill(_, _, _, _)
Fill(M, s1, s2, k) ==
    IF k >= Len(s1) * Len(s2) THEN M
    ELSE LET i == (k \div Len(s2)) + 1
             j == (k % Len(s2)) + 1
         IN  Fill([M EXCEPT ![<<i, j>>] =
                       check_non_negativity(cell(M, s1, s2, i, j))],
                  s1, s2, k + 1)

align(M, s1, s2) == Fill(M, s1, s2, 0)

NonNegative(p) == p[1] >= 0 /\ p[2] >= 0

\* The traceback's test for the diagonal neighbour.
DiagonalTest(val, backtrace, a, b) ==
    LET weight == loc(a, b)
    IN  \/ (val - backtrace = match + weight) /\ a = b
        \/ val - backtrace = mismatch + weight

\* The traceback's test for the neighbour above: a symbol of seq1 and a gap.
UpTest(val, backtrace, a) ==
    LET weight == loc(a, GapSym)
    IN  val - backtrace = gap + weight

\* The traceback's test for the neighbour to the left: a gap and a symbol of seq2.
LeftTest(val, backtrace, b) ==
    LET weight == loc(GapSym, b)
    IN  val - backtrace = gap + weight

\* What a diagonal, an upward and a leftward move append to the two rows.
DiagonalEmit(a, b) == <<a, b>>
UpEmit(a) == <<a, GapSym>>

\* A leftward move appending the symbol to the first row and the gap to the second.
LeftEmit_rows_swapped(b) == <<b, GapSym>>

LeftEmit(b) == <<GapSym, b>>

\* One pass of the traceback's `for index in idx` at coordinate cur, whose
\* value is val: the first neighbour whose test succeeds, if any.
select_move(M, s1, s2, cur, val) ==
    LET idx == SelectSeq(get_neighbours(cur[1], cur[2]), NonNegative)
    IN  IF idx = <<>> THEN [kind |-> "none"]
        ELSE IF IndexError(s1, cur[1] - 1) \/ IndexError(s2, cur[2] - 1)
        THEN [kind |-> "raise"]
        ELSE
          LET a == PyIndex(s1, cur[1] - 1)
              b == PyIndex(s2, cur[2] - 1)
              diagonal(k) == idx[k][1] + 1 = cur[1] /\ idx[k][2] + 1 = cur[2]
              up(k) == ~diagonal(k) /\ cur[1] - idx[k][1] # 0
              ok(k) == IF diagonal(k) THEN DiagonalTest(val, M[idx[k]], a, b)
                       ELSE IF up(k) THEN UpTest(val, M[idx[k]], a)
                       ELSE LeftTest(val, M[idx[k]], b)
              hits == {k \in 1..Len(idx) : ok(k)}
          IN  IF hits = {} THEN [kind |-> "none"]
              ELSE LET k == CHOOSE h \in hits : \A g \in hits : h <= g
                   IN  [kind |-> "move", to |-> idx[k],
                        emit |-> IF diagonal(k) THEN DiagonalEmit(a, b)
                                 ELSE IF up(k) THEN UpEmit(a)
                                 ELSE LeftEmit(b)]

Append2(rs, emit) == <<Append(rs[1], emit[1]), Append(rs[2], emit[2])>>

\* np.array(self.matrix.shape) - 1
Corner(s1, s2) == <<Len(s1), Len(s2)>>

\* Coordinates in the order np.where lists them: row by row.
RECURSIVE RowMajor(_)
RowMajor(S) ==
    IF S = {} THEN <<>>
    ELSE LET p == CHOOSE p \in S : \A q \in S :
                      p[1] < q[1] \/ (p[1] = q[1] /\ p[2] <= q[2])
         IN  <<p>> \o RowMajor(S \ {p})

\* select_local_alignment: the coordinates holding the matrix maximum.
MaxIndices(M) ==
    LET matrix_max == Max({M[p] : p \in DOMAIN M})
    IN  RowMajor({p \in DOMAIN M : M[p] = matrix_max})

\* self.alignment[key] = rs
Put(dict, key, rs) == {e \in dict : e[1] # key} \cup {<<key, rs>>}

NoRows == <<<<>>, <<>>>>

\* The fields every construction sets, whatever the scoring scheme.
Constructed ==
    /\ matrix = init_matrix(seq1, seq2)
    /\ pc = "constructed"
    /\ current = <<0, 0>>
    /\ value = 0
    /\ rows = NoRows
    /\ alignment = {}
    /\ indices = <<>>
    /\ start = <<0, 0>>

\* Aligner(seq1, seq2, match, gap, mismatch, weights=False, local).
Init ==
    /\ seq1 \in Seqs
    /\ seq2 \in Seqs
    /\ match \in Scores
    /\ gap \in Scores
    /\ mismatch \in Scores
    /\ local \in BOOLEAN
    /\ weights = set_weights(seq1, seq2)
    /\ Constructed

\* Aligner(seq1, seq2, weights=<a table>, local) with the default scores.
InitTable ==
    /\ seq1 \in Seqs
    /\ seq2 \in Seqs
    /\ match = DefaultMatch
    /\ gap = DefaultGap
    /\ mismatch = DefaultMismatch
    /\ local \in BOOLEAN
    /\ weights \in Tables
    /\ Constructed

Align ==
    /\ pc = "constructed"
    /\ matrix' = align(matrix, seq1, seq2)
    /\ pc' = "aligned"
    /\ UNCHANGED <<seq1, seq2, match, gap, mismatch, local, weights,
                   current, value, rows, alignment, indices, start>>

\* select_global_alignment up to its loop.
SelectGlobalBegin ==
    /\ pc = "aligned"
    /\ ~local
    /\ rows' = NoRows
    /\ current' = Corner(seq1, seq2)
    /\ pc' = "global"
    /\ UNCHANGED <<seq1, seq2, match, gap, mismatch, local, weights, matrix,
                   value, alignment, indices, start>>

\* while np.any(current >= end)
GlobalContinues == current[1] >= 1 \/ current[2] >= 1

\* One pass of select_global_alignment's while loop.  A pass in which no
\* test succeeds leaves everything as it was: the loop spins.
GlobalStep ==
    /\ pc = "global"
    /\ GlobalContinues
    /\ LET r == select_move(matrix, seq1, seq2, current, matrix[current])
       IN  /\ pc' = IF r.kind = "raise" THEN "raised" ELSE pc
           /\ rows' = IF r.kind = "move" THEN Append2(rows, r.emit) ELSE rows
           /\ current' = IF r.kind = "move" THEN r.to ELSE current
    /\ UNCHANGED <<seq1, seq2, match, gap, mismatch, local, weights, matrix,
                   value, alignment, indices, start>>

\* select_global_alignment after its loop.
GlobalFinish ==
    /\ pc = "global"
    /\ ~GlobalContinues
    /\ alignment' = {<<Corner(seq1, seq2), rows>>}
    /\ pc' = "done"
    /\ UNCHANGED <<seq1, seq2, match, gap, mismatch, local, weights, matrix,
                   current, value, rows, indices, start>>

\* select_local_alignment up to the while loop of its first start.
SelectLocalBegin ==
    /\ pc = "aligned"
    /\ local
    /\ LET all == MaxIndices(matrix)
       IN  /\ start' = Head(all)
           /\ indices' = Tail(all)
           /\ value' = matrix[Head(all)]
           /\ current' = Head(all)
    /\ alignment' = {}
    /\ rows' = NoRows
    /\ pc' = "local"
    /\ UNCHANGED <<seq1, seq2, match, gap, mismatch, local, weights, matrix>>

\* One pass of select_local_alignment's while loop: `value` is read from the
\* coordinate the pass starts at, and the loop test sees it only afterwards.
LocalStep ==
    /\ pc = "local"
    /\ value # 0
    /\ value' = matrix[current]
    /\ LET r == select_move(matrix, seq1, seq2, current, matrix[current])
       IN  /\ pc' = IF r.kind = "raise" THEN "raised" ELSE pc
           /\ rows' = IF r.kind = "move" THEN Append2(rows, r.emit) ELSE rows
           /\ current' = IF r.kind = "move" THEN r.to ELSE current
    /\ UNCHANGED <<seq1, seq2, match, gap, mismatch, local, weights, matrix,
                   alignment, indices, start>>

\* The while loop of a start ends: its rows are stored, and the for loop
\* goes on to the next start or ends.
LocalStore ==
    /\ pc = "local"
    /\ value = 0
    /\ alignment' = Put(alignment, start, rows)
    /\ IF indices = <<>>
       THEN /\ pc' = "done"
            /\ UNCHANGED <<start, indices, value, current, rows>>
       ELSE /\ start' = Head(indices)
            /\ indices' = Tail(indices)
            /\ value' = matrix[Head(indices)]
            /\ current' = Head(indices)
            /\ rows' = NoRows
            /\ pc' = "local"
    /\ UNCHANGED <<seq1, seq2, match, gap, mismatch, local, weights, matrix>>

Next ==
    \/ Align
    \/ SelectGlobalBegin
    \/ GlobalStep
    \/ GlobalFinish
    \/ SelectLocalBegin
    \/ LocalStep
    \/ LocalStore

Spec == Init /\ [][Next]_vars

\* Sequences one symbol longer, for the local runs under the usual scoring:
\* a local walk needs three moves to fall and rise again.
LocalSeqs == UNION {[1..k -> Alphabet] : k \in 0..(MaxLen + 1)}

\* Aligner(seq1, seq2, match, gap, mismatch, weights=False, local=True) with
\* the usual signs: a reward for a match, penalties for mismatch and gap.
InitLocal ==
    /\ seq1 \in LocalSeqs
    /\ seq2 \in LocalSeqs
    /\ match \in 1..(MaxScore + 1)
    /\ gap \in (0 - MaxScore)..(0 - 1)
    /\ mismatch \in (0 - MaxScore)..(0 - 1)
    /\ local = TRUE
    /\ weights = set_weights(seq1, seq2)
    /\ Constructed

NextLocal ==
    \/ Align
    \/ SelectLocalBegin
    \/ LocalStep
    \/ LocalStore

SpecLocal == InitLocal /\ [][NextLocal]_vars

SpecTable == InitTable /\ [][Next]_vars

(***************************************************************************)
(* The scoring scheme and the notions the properties below are stated in.  *)
(***************************************************************************)

\* score_pair(a, b): match or mismatch, plus the substitution entry.
ScorePair(a, b) == (IF a = b THEN match ELSE mismatch) + loc(a, b)

\* score_gap(x) = gap + sub(x, '-').
ScoreGap(x) == gap + loc(x, GapSym)

\* The best score over all global alignments of the first i symbols of s1
\* with the first j symbols of s2, by the last column of the alignment.
RECURSIVE NWOpt(_, _, _, _)
NWOpt(s1, s2, i, j) ==
    IF i = 0 /\ j = 0 THEN 0
    ELSE Max(
        (IF i >= 1 /\ j >= 1
         THEN {NWOpt(s1, s2, i - 1, j - 1) + ScorePair(s1[i], s2[j])} ELSE {})
        \cup (IF j >= 1 THEN {NWOpt(s1, s2, i, j - 1) + ScoreGap(s2[j])} ELSE {})
        \cup (IF i >= 1 THEN {NWOpt(s1, s2, i - 1, j) + ScoreGap(s1[i])} ELSE {}))

Reverse(s) == [k \in 1..Len(s) |-> s[Len(s) + 1 - k]]

\* The columns of an emitted alignment.
Columns(rs) == 1..Len(rs[1])
IsDiagonalColumn(rs, k) == rs[1][k] # GapSym /\ rs[2][k] # GapSym
DiagonalColumns(rs) == {k \in Columns(rs) : IsDiagonalColumn(rs, k)}

NonEmptyInputs == seq1 # <<>> /\ seq2 # <<>>
Interior(p) == p[1] >= 1 /\ p[2] >= 1

\* C1: in global mode, once align() has run, the bottom-right cell holds
\* the optimal Needleman-Wunsch score of the two sequences under
\* score_pair and score_gap.
C1_GlobalScoreIsOptimal ==
    (~local /\ pc # "constructed") =>
        matrix[Corner(seq1, seq2)] = NWOpt(seq1, seq2, Len(seq1), Len(seq2))

\* C2: global traceback (of non-empty sequences; the empty ones are C3's)
\* never stands at a cell where no move test succeeds, and ends at (0,0)
\* with rows of equal length len(s1) + len(s2) minus the diagonal moves.
C2_GlobalTracebackTerminates ==
    (~local /\ NonEmptyInputs) =>
        /\ pc # "raised"
        /\ (pc = "global" /\ GlobalContinues) =>
               select_move(matrix, seq1, seq2, current, matrix[current]).kind
                   = "move"
        /\ pc = "done" =>
               /\ current = <<0, 0>>
               /\ Len(rows[1]) = Len(rows[2])
               /\ Len(rows[1]) = Len(seq1) + Len(seq2)
                                   - Cardinality(DiagonalColumns(rows))

\* C3: in global mode with an empty sequence the matrix is the border of
\* cumulative gap scores, the traceback does not raise, and it yields the
\* other sequence against gaps only (nothing at all when both are empty).
C3_EmptySequenceTraceback ==
    (~local /\ ~NonEmptyInputs) =>
        /\ \A p \in DOMAIN matrix : matrix[p] = (p[1] + p[2]) * gap
        /\ pc # "raised"
        /\ pc = "done" =>
               alignment =
                   {<<Corner(seq1, seq2),
                      IF seq1 = <<>>
                      THEN <<[k \in 1..Len(seq2) |-> GapSym], Reverse(seq2)>>
                      ELSE <<Reverse(seq1), [k \in 1..Len(seq1) |-> GapSym]>>>>}

(***************************************************************************)
(* The run on the swapped sequences, for the symmetry property.            *)
(***************************************************************************)

Transpose(M) ==
    [p \in {<<q[2], q[1]>> : q \in DOMAIN M} |-> M[<<p[2], p[1]>>]]

\* The matrix Aligner(s1, s2, ...) holds after align().
Aligned(s1, s2) == align(init_matrix(s1, s2), s1, s2)

\* select_global_alignment's loop run to its end from cur with rows rs:
\* the rows, and how the loop ended.
RECURSIVE GlobalWalk(_, _, _, _, _)
GlobalWalk(M, s1, s2, cur, rs) ==
    IF ~(cur[1] >= 1 \/ cur[2] >= 1) THEN [end |-> "done", rows |-> rs]
    ELSE LET r == select_move(M, s1, s2, cur, M[cur])
         IN  IF r.kind = "move"
             THEN GlobalWalk(M, s1, s2, r.to, Append2(rs, r.emit))
             ELSE [end |-> IF r.kind = "raise" THEN "raised" ELSE "spins",
                   rows |-> rs]

\* The cell the walk stood at before emitting column k of rs, from start c.
RECURSIVE CellBefore(_, _, _)
CellBefore(rs, c, k) ==
    IF k = 1 THEN c
    ELSE LET q == CellBefore(rs, c, k - 1)
         IN  <<q[1] - (IF rs[1][k - 1] # GapSym THEN 1 ELSE 0),
               q[2] - (IF rs[2][k - 1] # GapSym THEN 1 ELSE 0)>>

\* At an interior cell the diagonal test fails and both gap tests succeed:
\* the choice between left and up is made by the order of the neighbours.
LeftUpTie(M, s1, s2, c) ==
    /\ Interior(c)
    /\ ~DiagonalTest(M[c], M[<<c[1] - 1, c[2] - 1>>], s1[c[1]], s2[c[2]])
    /\ LeftTest(M[c], M[<<c[1], c[2] - 1>>], s2[c[2]])
    /\ UpTest(M[c], M[<<c[1] - 1, c[2]>>], s1[c[1]])

TieOnWalk ==
    \E k \in Columns(rows) :
        LeftUpTie(matrix, seq1, seq2, CellBefore(rows, Corner(seq1, seq2), k))

SwappedMatrixIsTranspose ==
    pc # "constructed" => Aligned(seq2, seq1) = Transpose(matrix)

SwappedWalk ==
    GlobalWalk(Aligned(seq2, seq1), seq2, seq1, Corner(seq2, seq1), NoRows)

SwappedWalkIsMirror ==
    SwappedWalk = [end |-> "done", rows |-> <<rows[2], rows[1]>>]

\* C4 as stated: with the sequences swapped the filled matrix is the
\* transpose, and the global traceback result is the original one with its
\* two rows exchanged.
C4_SwapMirrors ==
    /\ SwappedMatrixIsTranspose
    /\ (pc = "done" /\ ~local) => SwappedWalkIsMirror

\* C4 as amended: with the sequences swapped the filled matrix is the
\* transpose; the global traceback result is the original one with its rows
\* exchanged provided the original walk met no cell where the diagonal test
\* fails and both the left and the up test succeed (there each run takes its
\* own left move).
C4_SwapMirrorsUnlessTie ==
    /\ SwappedMatrixIsTranspose
    /\ (pc = "done" /\ ~local /\ ~TieOnWalk) => SwappedWalkIsMirror

\* A finished global traceback of two different sequences under a table
\* with a non-zero entry, with a gap column and no left/up tie on the walk.
C4_Witness ==
    /\ pc = "done" /\ ~local /\ ~TieOnWalk
    /\ seq1 # seq2
    /\ \E p \in DOMAIN weights : weights[p] # 0
    /\ DiagonalColumns(rows) # Columns(rows)
    /\ DiagonalColumns(rows) # {}

(***************************************************************************)
(* Local traceback.                                                        *)
(***************************************************************************)

\* A pass of select_local_alignment's while loop that moves the walk.
LocalMove == LocalStep /\ current' # current

\* The column a moving pass emitted.
LastColumn(rs) == <<rs[1][Len(rs[1])], rs[2][Len(rs[2])]>>

\* C5 as stated: along a local walk the values of the cells visited are
\* strictly decreasing, up to and excluding the zero cell that ends it:
\* every move between two non-zero cells goes to a smaller value.
C5_LocalPathStrictlyDecreasing ==
    [][(LocalMove /\ matrix[current] # 0 /\ matrix[current'] # 0)
           => matrix[current'] < matrix[current]]_vars

\* C5 as amended: every move of a local walk goes to the neighbour its
\* emitted column stands for (diagonal for two symbols, left for a gap in
\* the first row, up for a gap in the second), and across it the value falls
\* by exactly the score of that move (match, for equal symbols, or mismatch
\* for a diagonal move, gap for a left or up move; no table).  So the value
\* is strictly smaller after a move exactly when the move's score is
\* positive: with match > 0 > mismatch, gap, exactly across the diagonal
\* moves between equal symbols, and it rises across all others.
C5_LocalMoveDropsByMoveScore ==
    [][LocalMove =>
        LET col == LastColumn(rows')
            drop == matrix[current] - matrix[current']
        IN  /\ rows' = Append2(rows, col)
            /\ current' = <<current[1] - (IF col[1] # GapSym THEN 1 ELSE 0),
                            current[2] - (IF col[2] # GapSym THEN 1 ELSE 0)>>
            /\ IF col[1] = GapSym \/ col[2] = GapSym THEN drop = gap
               ELSE IF col[1] # col[2] THEN drop = mismatch
               ELSE drop \in {match, mismatch}
            /\ (match > 0 /\ mismatch < 0 /\ gap < 0) =>
                   /\ (col[1] = col[2]) => matrix[current'] < matrix[current]
                   /\ (col[1] # col[2]) => matrix[current'] > matrix[current]]_vars

\* A local walk that has made a match move and then a mismatch move, and
\* stands at a non-zero cell with a further pass to come.
C5_Witness ==
    /\ pc = "local" /\ value # 0
    /\ Len(rows[1]) = 2
    /\ rows[1][1] = rows[2][1]
    /\ IsDiagonalColumn(rows, 2) /\ rows[1][2] # rows[2][2]
    /\ matrix[current] # 0

\* C6: after align() every interior cell is the maximum (clamped at 0 in
\* local mode) of the diagonal neighbour plus score_pair, the left
\* neighbour plus score_gap of the seq2 symbol and the upper neighbour plus
\* score_gap of the seq1 symbol.
C6_InteriorCellsFollowRecurrence ==
    pc # "constructed" =>
        \A i \in 1..Len(seq1), j \in 1..Len(seq2) :
            matrix[<<i, j>>] =
                LET best == Max({
                        matrix[<<i - 1, j - 1>>] + ScorePair(seq1[i], seq2[j]),
                        matrix[<<i, j - 1>>] + ScoreGap(seq2[j]),
                        matrix[<<i - 1, j>>] + ScoreGap(seq1[i])})
                IN  IF local THEN Max({0, best}) ELSE best

\* C7: at an interior cell the global traceback takes the first of
\* diagonal, left, up whose equality holds, the diagonal one being
\* V - M[i-1,j-1] = score_pair(seq1[i-1], seq2[j-1]); so no diagonal move is
\* taken whose drop is not score_pair of the two symbols.
C7_GlobalMoveIsFirstExactMatch ==
    (pc = "global" /\ Interior(current)) =>
        LET i == current[1]
            j == current[2]
            V == matrix[current]
            r == select_move(matrix, seq1, seq2, current, V)
            diag == V - matrix[<<i - 1, j - 1>>] = ScorePair(seq1[i], seq2[j])
            left == V - matrix[<<i, j - 1>>] = ScoreGap(seq2[j])
            up == V - matrix[<<i - 1, j>>] = ScoreGap(seq1[i])
        IN  IF diag THEN r.kind = "move" /\ r.to = <<i - 1, j - 1>>
            ELSE IF left THEN r.kind = "move" /\ r.to = <<i, j - 1>>
            ELSE IF up THEN r.kind = "move" /\ r.to = <<i - 1, j>>
            ELSE r.kind = "none"

\* C8: a local walk emits a pair only from a non-zero cell and stays at the
\* first zero cell it reaches: a pass that starts at a zero cell neither
\* emits nor moves.
C8_LocalWalkStopsAtZero ==
    [][(LocalStep /\ matrix[current] = 0)
           => (rows' = rows /\ current' = current)]_vars

\* C9: in global mode init_matrix leaves M[0,0] = 0, and along row 0 and
\* column 0 each cell is its predecessor plus score_gap of the symbol.
C9_GlobalBorderInit ==
    (~local /\ pc = "constructed") =>
        /\ matrix[<<0, 0>>] = 0
        /\ \A k \in 1..Len(seq2) :
               matrix[<<0, k>>] = matrix[<<0, k - 1>>] + ScoreGap(seq2[k])
        /\ \A k \in 1..Len(seq1) :
               matrix[<<k, 0>>] = matrix[<<k - 1, 0>>] + ScoreGap(seq1[k])

\* The score of column k: match, mismatch or gap (no table).
ColumnScore(rs, k) ==
    IF ~IsDiagonalColumn(rs, k) THEN gap
    ELSE IF rs[1][k] = rs[2][k] THEN match ELSE mismatch

RECURSIVE SumColumns(_, _)
SumColumns(rs, k) ==
    IF k = 0 THEN 0 ELSE SumColumns(rs, k - 1) + ColumnScore(rs, k)

Degap(row) == SelectSeq(row, LAMBDA x : x # GapSym)

\* C10: with no table and non-empty sequences, the rows of the global
\* alignment without their gap markers are seq1 and seq2, and the column
\* scores add up to the bottom-right cell.
C10_AlignmentConsistentWithMatrix ==
    (pc = "done" /\ ~local /\ NonEmptyInputs) =>
        /\ Degap(Reverse(rows[1])) = seq1
        /\ Degap(Reverse(rows[2])) = seq2
        /\ SumColumns(rows, Len(rows[1])) = matrix[Corner(seq1, seq2)]

====
